---- MODULE Spec2Model ----
(***************************************************************************)
(* Model of the highlight selection core of PragyaEdits:                   *)
(*   - compose_story           (src/modules/story_builder.py)              *)
(*   - compute_virality_score  (src/modules/creator_intelligence.py)       *)
(*                                                                         *)
(* Times are integers counting milliseconds (0.3 s = 300).  Signal samples *)
(* are integers counting halves (0.5 = 1, 1.0 = 2).  All arithmetic is     *)
(* exact; floating point rounding is not modelled.                         *)
(***************************************************************************)
EXTENDS Integers, Sequences, FiniteSets, TLC

VARIABLES
    \* ---- compose_story ----
    highlights,      \* the argument: ordered list of Highlight Candidates
    max_total_sec,   \* the argument: the duration budget (ms)
    out,             \* local: segments admitted so far
    total,           \* local: running total duration (ms)
    idx,             \* position of the for loop in highlights (1-based)
    pc_story,        \* "loop" | "ret" | "done"
    story,           \* the value returned by compose_story
    \* ---- compute_virality_score ----
    rmse,            \* normalised audio energy signal from _audio_energy
    hop_sec,         \* hop duration from _audio_energy (ms)
    motion,          \* normalised motion signal from _motion_score
    target_len,      \* the argument: target highlight duration (ms)
    transcript_json, \* the argument: transcript handle of the current call
    rmse_rs,         \* local: rmse resampled to length L (scaled, see Resample)
    motion_rs,       \* local: motion resampled to length L (scaled)
    score,           \* local: the fused signal (scaled, see Fuse)
    win,             \* local: window length in samples
    cumsum,          \* local: prefix sums of score, cumsum[j+1] = sum of j samples
    best_i,          \* local: best window offset so far (0-based)
    best_v,          \* local: best window sum so far (scaled)
    i,               \* local: loop variable of the window scan (0-based)
    pc_score,        \* "idle" | "scan"
    candidates,      \* the value returned by the last completed call
    returned,        \* history: one record per completed call
    \* ---- _audio_energy and _motion_score ----
    audio_fails,     \* input: loading or analysing the audio raises
    audio_raw,       \* input: the RMS energies librosa computes for the file
    audio_hop,       \* input: 512/float(sr) of the file (ms)
    rmse_norm,       \* the signal _audio_energy returns, as fractions
    frames,          \* input: the grey level of each frame the video decodes to
    step,            \* the argument: sample every step-th frame
    frame_i,         \* local i of _motion_score: frames read so far
    prev,            \* local: previous sampled grey frame, NoFrame for None
    scores,          \* local: raw motion samples, in 1/255
    motion_raised,   \* history: _motion_score took its except branch
    motion_norm,     \* the signal _motion_score returns, as fractions
    pc_ext,          \* "audio" | "motion" | "done"
    \* ---- blur_plates_video (one detection) and _find_plate_boxes ----
    frame_w,         \* W, the frame width
    frame_h,         \* H, the frame height
    blur_k,          \* the argument k: the blur kernel size asked for
    det_box,         \* input: the detector's box (x1d, y1d, x2d, y2d)
    det_cls,         \* input: the detector's class id for the box
    veh,             \* locals x1, y1, x2, y2: the inset vehicle box
    roi_w,           \* w0: width of veh_roi
    roi_h,           \* h0: height of veh_roi
    proc_w,          \* pw: width of the resized crop
    proc_h,          \* ph: height of the resized crop
    contours,        \* what cv2.findContours returns for the crop
    c_idx,           \* position of the loop over contours (1-based)
    plate_cands,     \* local candidates of _find_plate_boxes
    plate_processed, \* history: the image processing of lines 11-26 ran
    boxes,           \* the value returned by _find_plate_boxes
    blurred,         \* frame rectangles that were blurred for this detection
    pc_plate,        \* "det" | "find" | "scan" | "blur" | "end"
    \* ---- run_pipeline, steps 3 to 5 ----
    scored,          \* input: the list compute_virality_score returned
    mood_default,    \* the argument mood_default
    pipe_highlights, \* local highlights of run_pipeline
    story_clips,     \* local story_clips
    clips,           \* local clips: one record per exported clip
    blur_plates,     \* the argument blur_plates
    enable_ai_enhance, \* the condition of line 136 (argument or configuration)
    enable_bg_music, \* the condition of line 161 (argument or configuration)
    finals,          \* local finals: one record per final clip
    enhanced_finals, \* local of the AI-enhancement step
    music_finals,    \* local of the background-music step
    enhance_failed,  \* history: the AI-enhancement step took its except branch
    music_failed,    \* history: the background-music step took its except branch
    pc_pipe,         \* "off" | "detect" | "call" | "compose" | "export" |
                     \* "exported" | "enhance" | "music" | "transitions"
    \* ---- blur_plates_video (the frame loop) ----
    video,           \* input: per frame of input_video, what the detector and
                     \* _find_plate_boxes make of each detection in it
    cap_opened,      \* input: cap.isOpened()
    frames_read,     \* number of frames cap.read() has delivered
    frame_dets,      \* the detections of the frame in hand
    det_idx,         \* position of the loop over detections (1-based)
    frame_blurs,     \* number of rectangles of the frame in hand blurred so far
    written,         \* the frames passed to out.write, in order
    logs,            \* local logs, the value returned
    pc_video         \* "off" | "open" | "read" | "detect" | "returned" | "raised"

story_vars == <<highlights, max_total_sec, out, total, idx, pc_story, story>>

score_vars == <<rmse, hop_sec, motion, target_len, transcript_json, rmse_rs,
                motion_rs, score, win, cumsum, best_i, best_v, i, pc_score,
                candidates, returned>>

ext_vars == <<audio_fails, audio_raw, audio_hop, rmse_norm, frames, step, frame_i,
              prev, scores, motion_raised, motion_norm, pc_ext>>

plate_vars == <<frame_w, frame_h, blur_k, det_box, det_cls, veh, roi_w, roi_h, proc_w,
                proc_h, contours, c_idx, plate_cands, plate_processed, boxes,
                blurred, pc_plate>>

pipe_vars == <<scored, mood_default, pipe_highlights, story_clips, clips,
               blur_plates, enable_ai_enhance, enable_bg_music, finals,
               enhanced_finals, music_finals, enhance_failed, music_failed, pc_pipe>>

\* the arguments of run_pipeline
pipe_args == <<scored, mood_default, blur_plates, enable_ai_enhance, enable_bg_music>>

\* what steps 3 to 5 of run_pipeline leave alone
pipe_late_vars == <<finals, enhanced_finals, music_finals, enhance_failed,
                    music_failed>>

video_vars == <<video, cap_opened, frames_read, frame_dets, det_idx, frame_blurs,
                written, logs, pc_video>>

vars == <<story_vars, score_vars, ext_vars, plate_vars, pipe_vars, video_vars>>

\* what the steps of one component leave alone
not_story_vars == <<score_vars, ext_vars, plate_vars, pipe_vars, video_vars>>
not_score_vars == <<story_vars, ext_vars, plate_vars, pipe_vars, video_vars>>
not_ext_vars == <<story_vars, plate_vars, pipe_vars, video_vars>>
not_plate_vars == <<story_vars, score_vars, ext_vars, pipe_vars, video_vars>>
not_pipe_vars == <<score_vars, ext_vars, plate_vars, video_vars>>
not_video_vars == <<story_vars, score_vars, ext_vars, plate_vars, pipe_vars>>

Max(a, b) == IF a >= b THEN a ELSE b
Min(a, b) == IF a <= b THEN a ELSE b

(***************************************************************************)
(* Bounds of the model.                                                    *)
(***************************************************************************)
MaxStoryLen == 3
MaxSigLen == 4
MaxCalls == 2
MaxRawLen == 3
MaxFrames == 3
MaxContours == 3
MaxVideoFrames == 3

(***************************************************************************)
(* compose_story                                                           *)
(***************************************************************************)
\* 0.3 seconds, the minimum clip duration
MinClip == 300

Cand(s, e) == [start |-> s, end |-> e, score |-> [num |-> 1, den |-> 2], mood |-> "energetic"]

\* Candidates the callers may pass (end > start): the 10 s / 40 s / 10 s
\* sequence, a 100 s candidate, a 35 s candidate that fills a 45 s budget
\* exactly after a 10 s one, and two candidates shorter than 0.3 s.
StoryPool ==
    { Cand(0, 10000), Cand(10000, 50000), Cand(50000, 60000), Cand(0, 100000),
      Cand(10000, 45000), Cand(0, 100), Cand(0, 250) }

\* Budgets are durations (never negative): the default 45 s, 10 s, and two
\* budgets below the minimum clip.
StoryBudgets == {0, 200, 10000, 45000}

SeqsUpTo(S, n) == UNION { [1..k -> S] : k \in 0..n }

\* dur = max(0.3, h["end"]-h["start"])
ClipDurMin(h) == Min(MinClip, h.end - h.start)
ClipDur(h) == Max(MinClip, h.end - h.start)

\* if total + dur > max_total_sec: break
ExceedsBefore(t, dur, budget) == t > budget
ExceedsGe(t, dur, budget) == t + dur >= budget
Exceeds(t, dur, budget) == t + dur > budget

\* return out or highlights[:1]
StoryResultNoFallback(o, hl) == o
StoryResult(o, hl) == IF o # <<>> THEN o ELSE SubSeq(hl, 1, Min(1, Len(hl)))

(***************************************************************************)
(* compute_virality_score                                                  *)
(*                                                                         *)
(* Samples count halves: 0.0 = 0, 0.5 = FallbackSample, 1.0 = One.         *)
(* A signal resampled to length L is kept multiplied by D = max(L-1, 1),   *)
(* the denominator of np.linspace(0, n-1, L), so interpolated values stay  *)
(* integers.  The fused signal is further multiplied by 10 (weights 6, 4). *)
(* One unit of the fused signal is therefore 1 / ScoreDen(L).              *)
(***************************************************************************)
\* the neutral sample 0.5 of the fallback signals, in halves
FallbackSample == 1
One == 2 * FallbackSample

\* hop duration of the audio fallback, 1.0 s
FallbackHop == 1000

\* max(hop_sec, 1e-3): one millisecond
HopFloor == 1

\* fusion weights 0.6 and 0.4, in tenths
AudioWeight == 6
MotionWeight == 4

\* What _audio_energy and _motion_score can return: the fallback [0.5], or
\* a min-max normalised signal (all zero when the raw signal is constant or
\* has one sample, otherwise with minimum 0.0 and maximum 1.0).
\* Audio samples take the values 0.0, 0.5, 1.0 and motion samples 0.0, 1.0.
AudioSamples == {0, FallbackSample, One}
MotionSamples == {0, One}

NormSignals(V, n) ==
    { <<FallbackSample>> } \cup
    { s \in UNION { [1..k -> V] : k \in 1..n } :
        \/ \A j \in 1..Len(s) : s[j] = 0
        \/ /\ \E j \in 1..Len(s) : s[j] = 0
           /\ \E j \in 1..Len(s) : s[j] = One }

\* 512/float(sr) for two sampling rates, in ms
Hops == {500, FallbackHop}

\* target durations: below the 0.3 s minimum, 2.6 s, and the default 30 s
Targets == {200, 2600, 30000}

Transcripts == {"a.json", "b.json"}

LenMax(a, m) == Max(Len(a), Len(m))

Denom(L) == Max(L - 1, 1)

ScoreDen(L) == 10 * One * Denom(L)

\* InterpAt with the sample positions 0..L-1 of the target range, which
\* np.interp clips to the last sample
InterpAtTargetRange(x, L, k) == x[Min(k, Len(x) - 1) + 1] * Denom(L)

\* np.interp(np.linspace(0, n-1, L), np.arange(n), x)[k], k 0-based, times
\* Denom(L); the sample position is k*(n-1)/(L-1)
InterpAt(x, L, k) ==
    LET pn == k * (Len(x) - 1)
        f  == pn \div Denom(L)
        r  == pn % Denom(L)
    IN  IF r = 0 THEN x[f + 1] * Denom(L)
        ELSE x[f + 1] * Denom(L) + (x[f + 2] - x[f + 1]) * r

\* np.interp(...) if len(x) > 1 else np.full(L, x[0])
Resample(x, L) ==
    [k \in 1..L |-> IF Len(x) > 1 THEN InterpAt(x, L, k - 1) ELSE x[1] * Denom(L)]

\* score = 0.6*rmse + 0.4*motion
FuseUnweighted(a, m) == [k \in 1..Len(a) |-> 10 * a[k] + 10 * m[k]]
Fuse(a, m) == [k \in 1..Len(a) |-> AudioWeight * a[k] + MotionWeight * m[k]]

\* win = max(1, int(target_len / max(hop_sec, 1e-3)))
WinLen(t, hop) == Max(1, t \div Max(hop, HopFloor))

RECURSIVE SumFirst(_, _)
SumFirst(s, n) == IF n = 0 THEN 0 ELSE SumFirst(s, n - 1) + s[n]

\* np.cumsum(np.concatenate([[0], score]))
CumSum(s) == [j \in 1..(Len(s) + 1) |-> SumFirst(s, j - 1)]

\* range(0, len(score)-win)
ScanStopShort(L, w) == L - w - 1
ScanStop(L, w) == L - w

\* best_i, best_v = 0, -1
BestInit(L) == -ScoreDen(L)

\* if v > best_v
BetterOrEqual(v, b) == v >= b
Better(v, b) == v > b

\* Candidate without the clamp of end
CandidateNoMinClip(bi, bv, hop, t, w, L) ==
    [ start |-> Max(0, bi * hop),
      end   |-> bi * hop + t,
      score |-> [num |-> bv, den |-> ScoreDen(L) * Max(w, 1)],
      mood  |-> "energetic" ]

\* the returned dict; score is the fraction best_v / max(win, 1)
Candidate(bi, bv, hop, t, w, L) ==
    LET start == bi * hop
        end   == start + t
    IN  [ start |-> Max(0, start),
          end   |-> Max(start + MinClip, end),
          score |-> [num |-> bv, den |-> ScoreDen(L) * Max(w, 1)],
          mood  |-> "energetic" ]

\* return [ {...} ]
ResultListEmptyNoWindow(c, L, w) == IF L <= w THEN <<>> ELSE <<c>>
ResultList(c, L, w) == <<c>>

(***************************************************************************)
(* _audio_energy and _motion_score                                         *)
(*                                                                         *)
(* A frame is one grey pixel, so float(diff.mean())/255.0 is |g - prev| in *)
(* units of 1/255.  A normalised sample is kept as the fraction            *)
(* num / (den + eps * 1e-9), with 1e-9 smaller than one unit of num.       *)
(***************************************************************************)
\* prev = None
NoFrame == -1

RawLevels == {0, 1, 2}
Pixels == {0, 1}
MotionSteps == {1, 2}

RECURSIVE SeqMin(_)
SeqMin(x) == IF Len(x) = 1 THEN x[1] ELSE Min(x[1], SeqMin(Tail(x)))

RECURSIVE SeqMax(_)
SeqMax(x) == IF Len(x) = 1 THEN x[1] ELSE Max(x[1], SeqMax(Tail(x)))

\* (x - x.min()) / (x.max() - x.min() + 1e-9)
NormalizeNoEps(x) ==
    [k \in 1..Len(x) |-> [num |-> x[k] - SeqMin(x), den |-> SeqMax(x) - SeqMin(x), eps |-> 0]]
Normalize(x) ==
    [k \in 1..Len(x) |-> [num |-> x[k] - SeqMin(x), den |-> SeqMax(x) - SeqMin(x), eps |-> 1]]

\* the sample 0.5 of np.array([0.5]) and of [0.5]
HalfFrac == [num |-> FallbackSample, den |-> One, eps |-> 0]

\* a normalised fraction in the scorer's sample unit (halves), 1e-9 dropped
ToSample(f) == IF f.den = 0 THEN 0 ELSE (One * f.num) \div f.den

ToSamples(x) == [k \in 1..Len(x) |-> ToSample(x[k])]

\* abs of a grey level difference
AbsDiff(a, b) == IF a >= b THEN a - b ELSE b - a

\* the extractors are not part of the run
ExtOff ==
    /\ audio_fails = FALSE
    /\ audio_raw = <<>>
    /\ audio_hop = FallbackHop
    /\ rmse_norm = <<>>
    /\ frames = <<>>
    /\ step = 1
    /\ frame_i = 0
    /\ prev = NoFrame
    /\ scores = <<>>
    /\ motion_raised = FALSE
    /\ motion_norm = <<>>
    /\ pc_ext = "done"

(***************************************************************************)
(* blur_plates_video (the body of its loop over detections) and            *)
(* _find_plate_boxes                                                       *)
(*                                                                         *)
(* The OpenCV steps of lines 13-26 are not modelled: what they produce for *)
(* a crop, the external contours of the masked binary image, is an input.  *)
(* A contour is its bounding rectangle x, y, w, h in the resized crop, its *)
(* cv2.contourArea ca, and nz, the number of non-zero gradient pixels      *)
(* inside the rectangle.  Coordinates are pixels; int() of a product with  *)
(* a float factor is the floor of the exact product.                       *)
(***************************************************************************)
VEHICLE_CLASSES == {2, 3, 5, 7}

\* det_w = 1280
DetW == 1280

\* width of the resized crop: scale = 640.0 / max(w0, 1)
ProcW == 640

\* frame sizes (W, H)
FrameSizes == { <<1280, 720>>, <<640, 480>> }

\* Detector boxes in the 1280-wide detection image: a large vehicle, a
\* small one, a tiny one, a box of zero width, and a box with x1d > x2d.
DetBoxes ==
    { <<100, 100, 1100, 700>>, <<600, 300, 640, 330>>, <<600, 300, 616, 312>>,
      <<500, 500, 500, 600>>, <<700, 200, 600, 400>> }

\* class ids: car, bus, person
DetClasses == {2, 5, 0}

Contour(x, y, w, h, ca, nz) == [x |-> x, y |-> y, w |-> w, h |-> h, ca |-> ca, nz |-> nz]

\* Contours the image processing may find: two plate-like ones, one too
\* small, one square, one with fill just below 0.45, one with edge density
\* just below 0.10, one at the image border with dense edges, a larger one
\* with sparse edges that ranks below it, one of minimal height and aspect 3.0, and two
\* plate-shaped ones without any gradient pixel.
ContourPool ==
    { Contour(200, 250, 90, 30, 2400, 1350),
      Contour(300, 300, 120, 40, 4000, 480),
      Contour(400, 220, 29, 12, 300, 200),
      Contour(100, 300, 40, 40, 1500, 800),
      Contour(450, 260, 60, 20, 540, 600),
      Contour(520, 340, 60, 20, 1000, 119),
      Contour(0, 360, 66, 24, 1500, 900),
      Contour(420, 230, 90, 30, 2400, 270),
      Contour(82, 210, 36, 12, 300, 100),
      Contour(200, 210, 90, 30, 2400, 0),
      Contour(400, 300, 120, 40, 4000, 0) }

Floor(a, b) == a \div b

\* det_h = int(H*det_w/max(W,1))
DetH(W, H) == Floor(H * DetW, Max(W, 1))

\* lines 72-77: the detector box scaled to the frame and inset by 3 %;
\* int() truncates toward zero
Trunc(a, b) == IF a >= 0 THEN a \div b ELSE -((-a) \div b)

VehicleBox(b, W, H) ==
    LET x1 == Max(0, Floor(b[1] * W, DetW))
        y1 == Max(0, Floor(b[2] * H, DetH(W, H)))
        x2 == Min(W, Floor(b[3] * W, DetW))
        y2 == Min(H, Floor(b[4] * H, DetH(W, H)))
        xpad == Trunc((x2 - x1) * 3, 100)
        ypad == Trunc((y2 - y1) * 3, 100)
    IN  [ x1 |-> Max(0, x1 + xpad), y1 |-> Max(0, y1 + ypad),
          x2 |-> Min(W, x2 - xpad), y2 |-> Min(H, y2 - ypad) ]

\* frame[y1:y2, x1:x2] for coordinates in the frame: its width and height
SliceLen(a, b) == Max(0, b - a)

\* if veh_roi.size == 0
RoiEmptyNever(w0, h0) == FALSE
RoiEmpty(w0, h0) == w0 * h0 = 0

\* lines 12-14: pw and ph
ProcWidth(w0) == Max(1, Floor(w0 * ProcW, Max(w0, 1)))
ProcHeight(w0, h0) == Max(1, Floor(h0 * ProcW, Max(w0, 1)))

\* y_focus = int(ph*0.4)
YFocus(ph) == Floor(ph * 4, 10)

\* a contour of the masked image lies inside it and below y_focus
ContourFits(c, pw, ph) ==
    /\ c.x >= 0 /\ c.x + c.w <= pw
    /\ c.y >= YFocus(ph) /\ c.y + c.h <= ph

\* if w<30 or h<12: continue
TooSmallBoth(c) == c.w < 30 /\ c.h < 12
TooSmall(c) == c.w < 30 \/ c.h < 12

\* 1.8<=aspect<=6.5 and 0.45<=fill<=1.0, fill = ca/float(area+1e-6)
ShapeOk(c) ==
    /\ 18 * c.h <= 10 * c.w /\ 10 * c.w <= 65 * c.h
    /\ 100 * c.ca > 45 * c.w * c.h /\ c.ca <= c.w * c.h

\* if edge < 0.10: continue
EdgeTooLowNever(c) == FALSE
EdgeTooLow(c) == 10 * c.nz < c.w * c.h

\* lines 38-41: the padded rectangle clipped to the resized crop
Padded(c, pw, ph) ==
    LET pad_x == Floor(c.w * 6, 100)
        pad_y == Floor(c.h * 25, 100)
    IN  [ x1 |-> Max(0, c.x - pad_x), y1 |-> Max(0, c.y - pad_y),
          x2 |-> Min(pw, c.x + c.w + pad_x), y2 |-> Min(ph, c.y + c.h + pad_y),
          area |-> c.w * c.h, w |-> c.w, h |-> c.h, nz |-> c.nz ]

\* twice the sort key area*(edge+0.5), edge = nz/area
RankKey(t) == 2 * t.nz + t.area

RECURSIVE InsertDesc(_, _)
\* t placed after every element whose key is not smaller
InsertDesc(srt, t) ==
    IF srt = <<>> THEN <<t>>
    ELSE IF RankKey(Head(srt)) >= RankKey(t)
         THEN <<Head(srt)>> \o InsertDesc(Tail(srt), t)
         ELSE <<t>> \o srt

RECURSIVE SortDescFrom(_, _)
SortDescFrom(srt, rest) ==
    IF rest = <<>> THEN srt
    ELSE SortDescFrom(InsertDesc(srt, Head(rest)), Tail(rest))

\* candidates.sort(key=..., reverse=True), a stable sort
SortKeepOrder(cs) == cs
SortDesc(cs) == SortDescFrom(<<>>, cs)

\* top = candidates[:2]
TopAll(cs) == cs
TopTwo(cs) == SubSeq(cs, 1, Min(2, Len(cs)))

\* int(v*inv), inv = 1.0/max(scale,1e-6) = w0/640
ScaleBackNone(v, w0) == v
ScaleBack(v, w0) == Floor(v * Max(w0, 1), ProcW)

\* lines 47-48
ScaledBox(t, w0, h0) ==
    [ X1 |-> Max(0, Min(ScaleBack(t.x1, w0), w0 - 1)),
      Y1 |-> Max(0, Min(ScaleBack(t.y1, w0), h0 - 1)),
      X2 |-> Max(0, Min(ScaleBack(t.x2, w0), w0)),
      Y2 |-> Max(0, Min(ScaleBack(t.y2, w0), h0)) ]

KeepEvery(bs) == bs

RECURSIVE KeepNonEmpty(_)
\* if X2>X1 and Y2>Y1: boxes.append(...)
KeepNonEmpty(bs) ==
    IF bs = <<>> THEN <<>>
    ELSE IF Head(bs).X2 > Head(bs).X1 /\ Head(bs).Y2 > Head(bs).Y1
         THEN <<Head(bs)>> \o KeepNonEmpty(Tail(bs))
         ELSE KeepNonEmpty(Tail(bs))

\* lines 42-50
PlateBoxes(cs, w0, h0) ==
    LET top == TopTwo(SortDesc(cs))
    IN  KeepNonEmpty([k \in 1..Len(top) |-> ScaledBox(top[k], w0, h0)])

\* kernel sizes asked for: the default 51 and an even one
BlurStrengths == {51, 50}

\* kk = k if (k%2==1) else (k+1)
KernelSize(k) == IF k % 2 = 1 THEN k ELSE k + 1

\* BlurRects with the plate boxes taken as frame coordinates
BlurRectsNoOffset(bs, v, k) ==
    [j \in 1..Len(bs) |-> [ X1 |-> bs[j].X1, Y1 |-> bs[j].Y1, X2 |-> bs[j].X2,
                            Y2 |-> bs[j].Y2, kk |-> KernelSize(k) ]]

RECURSIVE BlurRects(_, _, _)
\* lines 79-84: the frame rectangle of each plate box that is overwritten
\* with its Gaussian blur of kernel kk, skipped when empty
BlurRects(bs, v, k) ==
    IF bs = <<>> THEN <<>>
    ELSE LET r == [ X1 |-> v.x1 + Head(bs).X1, Y1 |-> v.y1 + Head(bs).Y1,
                    X2 |-> v.x1 + Head(bs).X2, Y2 |-> v.y1 + Head(bs).Y2,
                    kk |-> KernelSize(k) ]
         IN  IF SliceLen(r.X1, r.X2) * SliceLen(r.Y1, r.Y2) = 0
             THEN BlurRects(Tail(bs), v, k)
             ELSE <<r>> \o BlurRects(Tail(bs), v, k)

NoBox == [x1 |-> 0, y1 |-> 0, x2 |-> 0, y2 |-> 0]

\* no detection is being handled
PlateOff ==
    /\ frame_w = 1280
    /\ frame_h = 720
    /\ blur_k = 51
    /\ det_box = <<0, 0, 0, 0>>
    /\ det_cls = 0
    /\ veh = NoBox
    /\ roi_w = 0
    /\ roi_h = 0
    /\ proc_w = 0
    /\ proc_h = 0
    /\ contours = <<>>
    /\ c_idx = 1
    /\ plate_cands = <<>>
    /\ plate_processed = FALSE
    /\ boxes = <<>>
    /\ blurred = <<>>
    /\ pc_plate = "end"

(***************************************************************************)
(* run_pipeline, steps 3 to 5 (main.py lines 95-111)                       *)
(***************************************************************************)
\* max_total_sec=45 in the call of compose_story (ms)
PipeBudget == 45000

Moods == {"neutral", "calm"}

\* the policy default of line 99
DefaultCandidate(mood) ==
    [start |-> 0, end |-> 30000, score |-> [num |-> 1, den |-> 2], mood |-> mood]

\* candidates a scorer result may hold: windows of 30 s, a window shorter
\* than the minimum clip, a window longer than the budget
PipePool == { Cand(0, 30000), Cand(12000, 42000), Cand(1000, 1200), Cand(0, 50000) }

\* lines 98-99: if not highlights: highlights = [default]
HighlightsKeepEmpty(r, mood) == r
HighlightsOrDefault(r, mood) == IF r = <<>> THEN <<DefaultCandidate(mood)>> ELSE r

\* lines 107-119: what is exported for the n-th story clip; blur tells
\* whether the path appended is the one of the blurred copy
ExportedClip(c, n, blur) ==
    [ start |-> c.start, duration |-> Max(MinClip, c.end - c.start),
      mood |-> c.mood, n |-> n, blur |-> blur ]

\* lines 125-131: the captioned copy of a clip, with the times taken from
\* the story clip at the same index
CaptionedClip(clip, sc) ==
    [ n |-> clip.n, blur |-> clip.blur, start_time |-> sc.start,
      thumb_time |-> (sc.start + sc.end) \div 2, stages |-> <<"captioned">> ]

\* lines 142-155 and 187-193: the copy of a final clip a later step writes
Staged(f, stage) == [f EXCEPT !.stages = Append(f.stages, stage)]

\* run_pipeline is not running
PipeOff ==
    /\ scored = <<>>
    /\ mood_default = "neutral"
    /\ pipe_highlights = <<>>
    /\ story_clips = <<>>
    /\ clips = <<>>
    /\ blur_plates = FALSE
    /\ enable_ai_enhance = FALSE
    /\ enable_bg_music = FALSE
    /\ finals = <<>>
    /\ enhanced_finals = <<>>
    /\ music_finals = <<>>
    /\ enhance_failed = FALSE
    /\ music_failed = FALSE
    /\ pc_pipe = "off"

(***************************************************************************)
(* blur_plates_video, the frame loop (lines 52-88).  What happens to one   *)
(* detection is modelled above; here a detection is only its outcome: a    *)
(* class that is skipped, a vehicle without plate boxes, or a vehicle with  *)
(* one blurred plate box.                                                   *)
(***************************************************************************)
DetectionOutcomes == {"other", "vehicle", "plate"}

\* the detections of a frame: none, one of each kind, or a vehicle without
\* and one with a plate
FrameDetections ==
    { <<>>, <<"other">>, <<"vehicle">>, <<"plate">>, <<"vehicle", "plate">> }

\* logs = [f"[INFO] Blurring ..."] and logs.append("[INFO] Done.")
LogStart == "[INFO] Blurring"
LogDone == "[INFO] Done."

\* blur_plates_video is not running
VideoOff ==
    /\ video = <<>>
    /\ cap_opened = FALSE
    /\ frames_read = 0
    /\ frame_dets = <<>>
    /\ det_idx = 1
    /\ frame_blurs = 0
    /\ written = <<>>
    /\ logs = <<>>
    /\ pc_video = "off"

\* the scorer is not running and has never run
ScoreIdle ==
    /\ rmse = <<FallbackSample>>
    /\ hop_sec = FallbackHop
    /\ motion = <<FallbackSample>>
    /\ target_len = 30000
    /\ transcript_json = "a.json"
    /\ rmse_rs = <<>>
    /\ motion_rs = <<>>
    /\ score = <<>>
    /\ win = 0
    /\ cumsum = <<>>
    /\ best_i = 0
    /\ best_v = 0
    /\ i = 0
    /\ pc_score = "idle"
    /\ candidates = <<>>
    /\ returned = <<>>

\* the compose_story variables while only the scorer runs
StoryOff ==
    /\ highlights = <<>>
    /\ max_total_sec = 45000
    /\ out = <<>>
    /\ total = 0
    /\ idx = 1
    /\ pc_story = "done"
    /\ story = <<>>

InitScore ==
    /\ StoryOff
    /\ ExtOff
    /\ PlateOff
    /\ PipeOff
    /\ VideoOff
    /\ rmse \in NormSignals(AudioSamples, MaxSigLen)
    /\ motion \in NormSignals(MotionSamples, MaxSigLen)
    /\ hop_sec \in Hops
    /\ rmse = <<FallbackSample>> => hop_sec = FallbackHop
    /\ target_len \in Targets
    /\ transcript_json = "a.json"
    /\ rmse_rs = <<>>
    /\ motion_rs = <<>>
    /\ score = <<>>
    /\ win = 0
    /\ cumsum = <<>>
    /\ best_i = 0
    /\ best_v = 0
    /\ i = 0
    /\ pc_score = "idle"
    /\ candidates = <<>>
    /\ returned = <<>>

\* ScoreStart with the loop variable left as the previous call left it
ScoreStartStaleLoop ==
    /\ pc_score = "idle"
    /\ Len(returned) < MaxCalls
    /\ \E t \in Transcripts : transcript_json' = t
    /\ LET L == LenMax(rmse, motion)
           a == Resample(rmse, L)
           m == Resample(motion, L)
       IN  /\ rmse_rs' = a
           /\ motion_rs' = m
           /\ score' = Fuse(a, m)
           /\ cumsum' = CumSum(Fuse(a, m))
           /\ best_v' = BestInit(L)
    /\ win' = WinLen(target_len, hop_sec)
    /\ best_i' = 0
    /\ pc_score' = "scan"
    /\ UNCHANGED <<rmse, hop_sec, motion, target_len, candidates, returned, i>>
    /\ UNCHANGED not_score_vars

\* lines 35-43: a call with some transcript; resample, fuse, window length,
\* prefix sums, and the initial best
ScoreStart ==
    /\ pc_score = "idle"
    /\ Len(returned) < MaxCalls
    /\ \E t \in Transcripts : transcript_json' = t
    /\ LET L == LenMax(rmse, motion)
           a == Resample(rmse, L)
           m == Resample(motion, L)
       IN  /\ rmse_rs' = a
           /\ motion_rs' = m
           /\ score' = Fuse(a, m)
           /\ cumsum' = CumSum(Fuse(a, m))
           /\ best_v' = BestInit(L)
    /\ win' = WinLen(target_len, hop_sec)
    /\ best_i' = 0
    /\ i' = 0
    /\ pc_score' = "scan"
    /\ UNCHANGED <<rmse, hop_sec, motion, target_len, candidates, returned>>
    /\ UNCHANGED not_score_vars

\* lines 44-46, the window at i beats the best so far
ScoreScanBetter ==
    /\ pc_score = "scan"
    /\ i < ScanStop(Len(score), win)
    /\ Better(cumsum[i + win + 1] - cumsum[i + 1], best_v)
    /\ best_v' = cumsum[i + win + 1] - cumsum[i + 1]
    /\ best_i' = i
    /\ i' = i + 1
    /\ UNCHANGED <<rmse, hop_sec, motion, target_len, transcript_json, rmse_rs,
                   motion_rs, score, win, cumsum, pc_score, candidates, returned>>
    /\ UNCHANGED not_score_vars

\* lines 44-46, the window at i does not beat the best so far
ScoreScanKeep ==
    /\ pc_score = "scan"
    /\ i < ScanStop(Len(score), win)
    /\ ~Better(cumsum[i + win + 1] - cumsum[i + 1], best_v)
    /\ i' = i + 1
    /\ UNCHANGED <<rmse, hop_sec, motion, target_len, transcript_json, rmse_rs,
                   motion_rs, score, win, cumsum, best_i, best_v, pc_score,
                   candidates, returned>>
    /\ UNCHANGED not_score_vars

\* lines 47-48, after the loop
ScoreReturn ==
    /\ pc_score = "scan"
    /\ i >= ScanStop(Len(score), win)
    /\ LET res == ResultList(Candidate(best_i, best_v, hop_sec, target_len, win,
                                        Len(score)),
                              Len(score), win)
       IN  /\ candidates' = res
           /\ returned' = Append(returned,
                             [transcript |-> transcript_json, result |-> res])
    /\ pc_score' = "idle"
    /\ UNCHANGED <<rmse, hop_sec, motion, target_len, transcript_json, rmse_rs,
                   motion_rs, score, win, cumsum, best_i, best_v, i>>
    /\ UNCHANGED not_score_vars

NextScore == ScoreStart \/ ScoreScanBetter \/ ScoreScanKeep \/ ScoreReturn

SpecScore == InitScore /\ [][NextScore]_vars


(***************************************************************************)
(* One call of compute_virality_score from its first line: the two         *)
(* extractors run, then the scan.                                          *)
(***************************************************************************)
\* target durations of the calls that start at the extractors: below the
\* 0.3 s minimum, and the default 30 s
ExtractTargets == {200, 30000}

InitExtract ==
    /\ StoryOff
    /\ PlateOff
    /\ PipeOff
    /\ VideoOff
    /\ audio_fails \in BOOLEAN
    /\ audio_raw \in SeqsUpTo(RawLevels, MaxRawLen)
    /\ audio_hop \in Hops
    /\ audio_fails => (audio_raw = <<>> /\ audio_hop = FallbackHop)
    /\ rmse_norm = <<>>
    /\ frames \in SeqsUpTo(Pixels, MaxFrames)
    /\ step \in MotionSteps
    /\ frame_i = 0
    /\ prev = NoFrame
    /\ scores = <<>>
    /\ motion_raised = FALSE
    /\ motion_norm = <<>>
    /\ pc_ext = "audio"
    /\ rmse = <<>>
    /\ hop_sec = 0
    /\ motion = <<>>
    /\ target_len \in ExtractTargets
    /\ transcript_json = "a.json"
    /\ rmse_rs = <<>>
    /\ motion_rs = <<>>
    /\ score = <<>>
    /\ win = 0
    /\ cumsum = <<>>
    /\ best_i = 0
    /\ best_v = 0
    /\ i = 0
    /\ pc_score = "idle"
    /\ candidates = <<>>
    /\ returned = <<>>

\* _audio_energy, lines 6-10: the try branch runs through
AudioEnergyOk ==
    /\ pc_ext = "audio"
    /\ ~audio_fails
    /\ audio_raw # <<>>
    /\ rmse_norm' = Normalize(audio_raw)
    /\ rmse' = ToSamples(Normalize(audio_raw))
    /\ hop_sec' = audio_hop
    /\ pc_ext' = "motion"
    /\ UNCHANGED <<audio_fails, audio_raw, audio_hop, frames, step, frame_i, prev,
                   scores, motion_raised, motion_norm>>
    /\ UNCHANGED <<motion, target_len, transcript_json, rmse_rs, motion_rs, score,
                   win, cumsum, best_i, best_v, i, pc_score, candidates, returned>>
    /\ UNCHANGED not_ext_vars

\* _audio_energy, lines 11-12: import, load or rms raises, or rmse is empty
\* and rmse.min() raises
AudioEnergyExcept ==
    /\ pc_ext = "audio"
    /\ audio_fails \/ audio_raw = <<>>
    /\ rmse_norm' = <<HalfFrac>>
    /\ rmse' = <<FallbackSample>>
    /\ hop_sec' = FallbackHop
    /\ pc_ext' = "motion"
    /\ UNCHANGED <<audio_fails, audio_raw, audio_hop, frames, step, frame_i, prev,
                   scores, motion_raised, motion_norm>>
    /\ UNCHANGED <<motion, target_len, transcript_json, rmse_rs, motion_rs, score,
                   win, cumsum, best_i, best_v, i, pc_score, candidates, returned>>
    /\ UNCHANGED not_ext_vars

\* what every step of _motion_score's loop leaves alone
motion_loop_frame == <<audio_fails, audio_raw, audio_hop, rmse_norm, frames, step,
                       motion_raised, motion_norm, pc_ext>>

\* MotionSkip that remembers the skipped frame as the previous one
MotionSkipTracksPrev ==
    /\ pc_ext = "motion"
    /\ frame_i < Len(frames)
    /\ frame_i % step # 0
    /\ prev' = frames[frame_i + 1]
    /\ frame_i' = frame_i + 1
    /\ UNCHANGED scores
    /\ UNCHANGED motion_loop_frame
    /\ UNCHANGED score_vars
    /\ UNCHANGED not_ext_vars

\* _motion_score, line 21: a frame that is not a multiple of step
MotionSkip ==
    /\ pc_ext = "motion"
    /\ frame_i < Len(frames)
    /\ frame_i % step # 0
    /\ frame_i' = frame_i + 1
    /\ UNCHANGED <<prev, scores>>
    /\ UNCHANGED motion_loop_frame
    /\ UNCHANGED score_vars
    /\ UNCHANGED not_ext_vars

\* _motion_score, lines 22-25: the first sampled frame, prev is None
MotionSampleFirst ==
    /\ pc_ext = "motion"
    /\ frame_i < Len(frames)
    /\ frame_i % step = 0
    /\ prev = NoFrame
    /\ prev' = frames[frame_i + 1]
    /\ frame_i' = frame_i + 1
    /\ UNCHANGED scores
    /\ UNCHANGED motion_loop_frame
    /\ UNCHANGED score_vars
    /\ UNCHANGED not_ext_vars

\* _motion_score, lines 22-25: a later sampled frame
MotionSampleDiff ==
    /\ pc_ext = "motion"
    /\ frame_i < Len(frames)
    /\ frame_i % step = 0
    /\ prev # NoFrame
    /\ scores' = Append(scores, AbsDiff(frames[frame_i + 1], prev))
    /\ prev' = frames[frame_i + 1]
    /\ frame_i' = frame_i + 1
    /\ UNCHANGED motion_loop_frame
    /\ UNCHANGED score_vars
    /\ UNCHANGED not_ext_vars

\* what the end of _motion_score leaves alone
motion_end_frame == <<audio_fails, audio_raw, audio_hop, rmse_norm, frames, step,
                      frame_i, prev, scores>>

motion_end_score_frame == <<rmse, hop_sec, target_len, transcript_json, rmse_rs,
                            motion_rs, score, win, cumsum, best_i, best_v, i,
                            pc_score, candidates, returned>>

\* _motion_score, lines 20, 26-27: no more frames and no sample
MotionEndEmpty ==
    /\ pc_ext = "motion"
    /\ frame_i >= Len(frames)
    /\ scores = <<>>
    /\ motion_norm' = <<HalfFrac>>
    /\ motion' = <<FallbackSample>>
    /\ pc_ext' = "done"
    /\ UNCHANGED motion_raised
    /\ UNCHANGED motion_end_frame
    /\ UNCHANGED motion_end_score_frame
    /\ UNCHANGED not_ext_vars

\* _motion_score, lines 20, 26-29: no more frames, the samples are normalised
MotionEndNormalize ==
    /\ pc_ext = "motion"
    /\ frame_i >= Len(frames)
    /\ scores # <<>>
    /\ motion_norm' = Normalize(scores)
    /\ motion' = ToSamples(Normalize(scores))
    /\ pc_ext' = "done"
    /\ UNCHANGED motion_raised
    /\ UNCHANGED motion_end_frame
    /\ UNCHANGED motion_end_score_frame
    /\ UNCHANGED not_ext_vars

\* _motion_score with the exception escaping to the caller
MotionExceptPropagates ==
    /\ pc_ext = "motion"
    /\ motion_raised' = TRUE
    /\ pc_ext' = "raised"
    /\ UNCHANGED <<motion_norm, motion>>
    /\ UNCHANGED motion_end_frame
    /\ UNCHANGED motion_end_score_frame
    /\ UNCHANGED not_ext_vars

\* _motion_score, lines 30-31: the import, the capture or a frame conversion
\* raises at any point of the try block
MotionExcept ==
    /\ pc_ext = "motion"
    /\ motion_raised' = TRUE
    /\ motion_norm' = <<HalfFrac>>
    /\ motion' = <<FallbackSample>>
    /\ pc_ext' = "done"
    /\ UNCHANGED motion_end_frame
    /\ UNCHANGED motion_end_score_frame
    /\ UNCHANGED not_ext_vars

\* compute_virality_score, lines 37-43, once both signals are there; the
\* call's transcript is the one it was started with
ExtScoreStart ==
    /\ pc_ext = "done"
    /\ returned = <<>>
    /\ ScoreStart
    /\ transcript_json' = transcript_json

NextExtract ==
    \/ AudioEnergyOk \/ AudioEnergyExcept
    \/ MotionSkip \/ MotionSampleFirst \/ MotionSampleDiff
    \/ MotionEndEmpty \/ MotionEndNormalize \/ MotionExcept
    \/ ExtScoreStart \/ ScoreScanBetter \/ ScoreScanKeep \/ ScoreReturn

SpecExtract == InitExtract /\ [][NextExtract]_vars


InitStory ==
    /\ highlights \in SeqsUpTo(StoryPool, MaxStoryLen)
    /\ max_total_sec \in StoryBudgets
    /\ out = <<>>
    /\ total = 0
    /\ idx = 1
    /\ pc_story = "loop"
    /\ story = <<>>
    /\ ScoreIdle
    /\ ExtOff
    /\ PlateOff
    /\ PipeOff
    /\ VideoOff

\* StoryAdmit that writes the clamped end back into the admitted candidate
StoryAdmitClampInPlace ==
    /\ pc_story = "loop"
    /\ idx <= Len(highlights)
    /\ ~Exceeds(total, ClipDur(highlights[idx]), max_total_sec)
    /\ highlights' = [highlights EXCEPT
                         ![idx].end = highlights[idx].start + ClipDur(highlights[idx])]
    /\ out' = Append(out, highlights'[idx])
    /\ total' = total + ClipDur(highlights[idx])
    /\ idx' = idx + 1
    /\ UNCHANGED <<max_total_sec, pc_story, story>>
    /\ UNCHANGED not_story_vars

\* loop body, candidate fits: out.append(h); total += dur
StoryAdmit ==
    /\ pc_story = "loop"
    /\ idx <= Len(highlights)
    /\ ~Exceeds(total, ClipDur(highlights[idx]), max_total_sec)
    /\ out' = Append(out, highlights[idx])
    /\ total' = total + ClipDur(highlights[idx])
    /\ idx' = idx + 1
    /\ UNCHANGED <<highlights, max_total_sec, pc_story, story>>
    /\ UNCHANGED not_story_vars

\* loop body, candidate does not fit: break
StoryBreak ==
    /\ pc_story = "loop"
    /\ idx <= Len(highlights)
    /\ Exceeds(total, ClipDur(highlights[idx]), max_total_sec)
    /\ pc_story' = "ret"
    /\ UNCHANGED <<highlights, max_total_sec, out, total, idx, story>>
    /\ UNCHANGED not_story_vars

\* the for loop runs out of candidates
StoryExhaust ==
    /\ pc_story = "loop"
    /\ idx > Len(highlights)
    /\ pc_story' = "ret"
    /\ UNCHANGED <<highlights, max_total_sec, out, total, idx, story>>
    /\ UNCHANGED not_story_vars

\* return out or highlights[:1]
StoryReturn ==
    /\ pc_story = "ret"
    /\ story' = StoryResult(out, highlights)
    /\ pc_story' = "done"
    /\ UNCHANGED <<highlights, max_total_sec, out, total, idx>>
    /\ UNCHANGED not_story_vars

NextStory == StoryAdmit \/ StoryBreak \/ StoryExhaust \/ StoryReturn

SpecStory == InitStory /\ [][NextStory]_vars

(***************************************************************************)
(* One detection of one frame in blur_plates_video, lines 70-84.           *)
(***************************************************************************)
InitPlate ==
    /\ StoryOff
    /\ ScoreIdle
    /\ ExtOff
    /\ PipeOff
    /\ VideoOff
    /\ \E sz \in FrameSizes : frame_w = sz[1] /\ frame_h = sz[2]
    /\ blur_k \in BlurStrengths
    /\ det_box \in DetBoxes
    /\ det_cls \in DetClasses
    /\ veh = NoBox
    /\ roi_w = 0
    /\ roi_h = 0
    /\ proc_w = 0
    /\ proc_h = 0
    /\ contours = <<>>
    /\ c_idx = 1
    /\ plate_cands = <<>>
    /\ plate_processed = FALSE
    /\ boxes = <<>>
    /\ blurred = <<>>
    /\ pc_plate = "det"

\* line 71: not a vehicle class, continue
DetSkipClass ==
    /\ pc_plate = "det"
    /\ det_cls \notin VEHICLE_CLASSES
    /\ pc_plate' = "end"
    /\ UNCHANGED <<frame_w, frame_h, blur_k, det_box, det_cls, veh, roi_w, roi_h, proc_w,
                   proc_h, contours, c_idx, plate_cands, plate_processed, boxes,
                   blurred>>
    /\ UNCHANGED not_plate_vars

\* lines 72-79: the inset vehicle box and its crop, handed to _find_plate_boxes
VehicleCrop ==
    /\ pc_plate = "det"
    /\ det_cls \in VEHICLE_CLASSES
    /\ LET v == VehicleBox(det_box, frame_w, frame_h)
       IN  /\ veh' = v
           /\ roi_w' = SliceLen(v.x1, v.x2)
           /\ roi_h' = SliceLen(v.y1, v.y2)
    /\ pc_plate' = "find"
    /\ UNCHANGED <<frame_w, frame_h, blur_k, det_box, det_cls, proc_w, proc_h, contours,
                   c_idx, plate_cands, plate_processed, boxes, blurred>>
    /\ UNCHANGED not_plate_vars

\* _find_plate_boxes, lines 9-10: an empty crop
FindEmptyCrop ==
    /\ pc_plate = "find"
    /\ RoiEmpty(roi_w, roi_h)
    /\ boxes' = <<>>
    /\ pc_plate' = "blur"
    /\ UNCHANGED <<frame_w, frame_h, blur_k, det_box, det_cls, veh, roi_w, roi_h, proc_w,
                   proc_h, contours, c_idx, plate_cands, plate_processed, blurred>>
    /\ UNCHANGED not_plate_vars

\* _find_plate_boxes, lines 11-27: resize and image processing; the
\* contours found are some contours that fit the masked image
FindProcess ==
    /\ pc_plate = "find"
    /\ ~RoiEmpty(roi_w, roi_h)
    /\ plate_processed' = TRUE
    /\ proc_w' = ProcWidth(roi_w)
    /\ proc_h' = ProcHeight(roi_w, roi_h)
    /\ \E cs \in SeqsUpTo(ContourPool, MaxContours) :
          /\ \A k \in 1..Len(cs) :
                ContourFits(cs[k], ProcWidth(roi_w), ProcHeight(roi_w, roi_h))
          /\ contours' = cs
    /\ c_idx' = 1
    /\ plate_cands' = <<>>
    /\ pc_plate' = "scan"
    /\ UNCHANGED <<frame_w, frame_h, blur_k, det_box, det_cls, veh, roi_w, roi_h, boxes,
                   blurred>>
    /\ UNCHANGED not_plate_vars

\* what a rejected contour leaves alone
contour_reject_frame == <<frame_w, frame_h, blur_k, det_box, det_cls, veh, roi_w, roi_h,
                          proc_w, proc_h, contours, plate_cands, plate_processed,
                          boxes, blurred, pc_plate>>

\* line 30: too narrow or too short
ContourRejectSize ==
    /\ pc_plate = "scan"
    /\ c_idx <= Len(contours)
    /\ TooSmall(contours[c_idx])
    /\ c_idx' = c_idx + 1
    /\ UNCHANGED contour_reject_frame
    /\ UNCHANGED not_plate_vars

\* line 34: aspect or fill out of range
ContourRejectShape ==
    /\ pc_plate = "scan"
    /\ c_idx <= Len(contours)
    /\ ~TooSmall(contours[c_idx])
    /\ ~ShapeOk(contours[c_idx])
    /\ c_idx' = c_idx + 1
    /\ UNCHANGED contour_reject_frame
    /\ UNCHANGED not_plate_vars

\* line 37: edge density below 0.10
ContourRejectEdge ==
    /\ pc_plate = "scan"
    /\ c_idx <= Len(contours)
    /\ ~TooSmall(contours[c_idx])
    /\ ShapeOk(contours[c_idx])
    /\ EdgeTooLow(contours[c_idx])
    /\ c_idx' = c_idx + 1
    /\ UNCHANGED contour_reject_frame
    /\ UNCHANGED not_plate_vars

\* lines 38-41: the contour passes, its padded rectangle is a candidate
ContourAccept ==
    /\ pc_plate = "scan"
    /\ c_idx <= Len(contours)
    /\ ~TooSmall(contours[c_idx])
    /\ ShapeOk(contours[c_idx])
    /\ ~EdgeTooLow(contours[c_idx])
    /\ plate_cands' = Append(plate_cands, Padded(contours[c_idx], proc_w, proc_h))
    /\ c_idx' = c_idx + 1
    /\ UNCHANGED <<frame_w, frame_h, blur_k, det_box, det_cls, veh, roi_w, roi_h, proc_w,
                   proc_h, contours, plate_processed, boxes, blurred, pc_plate>>
    /\ UNCHANGED not_plate_vars

\* lines 42-50: sort, keep the top, scale back, return
FindReturn ==
    /\ pc_plate = "scan"
    /\ c_idx > Len(contours)
    /\ boxes' = PlateBoxes(plate_cands, roi_w, roi_h)
    /\ pc_plate' = "blur"
    /\ UNCHANGED <<frame_w, frame_h, blur_k, det_box, det_cls, veh, roi_w, roi_h, proc_w,
                   proc_h, contours, c_idx, plate_cands, plate_processed, blurred>>
    /\ UNCHANGED not_plate_vars

\* lines 79-84: blur every returned box
BlurBoxes ==
    /\ pc_plate = "blur"
    /\ blurred' = BlurRects(boxes, veh, blur_k)
    /\ pc_plate' = "end"
    /\ UNCHANGED <<frame_w, frame_h, blur_k, det_box, det_cls, veh, roi_w, roi_h, proc_w,
                   proc_h, contours, c_idx, plate_cands, plate_processed, boxes>>
    /\ UNCHANGED not_plate_vars

NextPlate ==
    \/ DetSkipClass \/ VehicleCrop \/ FindEmptyCrop \/ FindProcess
    \/ ContourRejectSize \/ ContourRejectShape \/ ContourRejectEdge
    \/ ContourAccept \/ FindReturn \/ BlurBoxes

SpecPlate == InitPlate /\ [][NextPlate]_vars

(***************************************************************************)
(* run_pipeline from the scorer's result to the smart-transitions step.    *)
(* The scorer's result is an input: any list of at most MaxStoryLen        *)
(* candidates, the empty list included.  compose_story runs as modelled    *)
(* above.  Exporting, captioning, enhancing a clip or adding music to it   *)
(* is one step each.  export_with_effects, overlay_captions and            *)
(* generate_thumbnail are called outside any try block: when they raise,   *)
(* run_pipeline ends with the exception, and such runs are left out.       *)
(***************************************************************************)
InitPipe ==
    /\ StoryOff
    /\ ScoreIdle
    /\ ExtOff
    /\ PlateOff
    /\ VideoOff
    /\ scored \in SeqsUpTo(PipePool, MaxStoryLen)
    /\ mood_default \in Moods
    /\ blur_plates \in BOOLEAN
    /\ enable_ai_enhance \in BOOLEAN
    /\ enable_bg_music \in BOOLEAN
    /\ pipe_highlights = <<>>
    /\ story_clips = <<>>
    /\ clips = <<>>
    /\ finals = <<>>
    /\ enhanced_finals = <<>>
    /\ music_finals = <<>>
    /\ enhance_failed = FALSE
    /\ music_failed = FALSE
    /\ pc_pipe = "detect"

\* lines 96-99: take the scorer's result, substitute the default if empty
PipeDetect ==
    /\ pc_pipe = "detect"
    /\ pipe_highlights' = HighlightsOrDefault(scored, mood_default)
    /\ pc_pipe' = "call"
    /\ UNCHANGED <<story_clips, clips>>
    /\ UNCHANGED <<pipe_args, pipe_late_vars>>
    /\ UNCHANGED story_vars
    /\ UNCHANGED not_pipe_vars

\* line 102: compose_story(highlights, transcript_json, max_total_sec=45) is
\* entered
PipeCallCompose ==
    /\ pc_pipe = "call"
    /\ highlights' = pipe_highlights
    /\ max_total_sec' = PipeBudget
    /\ out' = <<>>
    /\ total' = 0
    /\ idx' = 1
    /\ story' = <<>>
    /\ pc_story' = "loop"
    /\ pc_pipe' = "compose"
    /\ UNCHANGED <<pipe_highlights, story_clips, clips>>
    /\ UNCHANGED <<pipe_args, pipe_late_vars>>
    /\ UNCHANGED not_pipe_vars

\* line 102: compose_story has returned, story_clips is bound
PipeComposed ==
    /\ pc_pipe = "compose"
    /\ pc_story = "done"
    /\ story_clips' = story
    /\ clips' = <<>>
    /\ pc_pipe' = "export"
    /\ UNCHANGED pipe_highlights
    /\ UNCHANGED <<pipe_args, pipe_late_vars>>
    /\ UNCHANGED story_vars
    /\ UNCHANGED not_pipe_vars

\* what an iteration of the export loop leaves alone
pipe_export_frame == <<pipe_highlights, story_clips, pc_pipe>>

\* lines 106-110, 118-119: one iteration of the export loop, no blur asked
PipeExport ==
    /\ pc_pipe = "export"
    /\ Len(clips) < Len(story_clips)
    /\ ~blur_plates
    /\ clips' = Append(clips, ExportedClip(story_clips[Len(clips) + 1],
                                           Len(clips) + 1, FALSE))
    /\ UNCHANGED pipe_export_frame
    /\ UNCHANGED <<pipe_args, pipe_late_vars>>
    /\ UNCHANGED story_vars
    /\ UNCHANGED not_pipe_vars

\* lines 106-115, 118-119: one iteration, the plate blur succeeds
PipeExportBlurred ==
    /\ pc_pipe = "export"
    /\ Len(clips) < Len(story_clips)
    /\ blur_plates
    /\ clips' = Append(clips, ExportedClip(story_clips[Len(clips) + 1],
                                           Len(clips) + 1, TRUE))
    /\ UNCHANGED pipe_export_frame
    /\ UNCHANGED <<pipe_args, pipe_late_vars>>
    /\ UNCHANGED story_vars
    /\ UNCHANGED not_pipe_vars

\* lines 106-119: one iteration, _maybe_blur_plates raises and the
\* exception is logged
PipeExportBlurFails ==
    /\ pc_pipe = "export"
    /\ Len(clips) < Len(story_clips)
    /\ blur_plates
    /\ clips' = Append(clips, ExportedClip(story_clips[Len(clips) + 1],
                                           Len(clips) + 1, FALSE))
    /\ UNCHANGED pipe_export_frame
    /\ UNCHANGED <<pipe_args, pipe_late_vars>>
    /\ UNCHANGED story_vars
    /\ UNCHANGED not_pipe_vars

\* line 106: the export loop has run through story_clips
PipeExportEnd ==
    /\ pc_pipe = "export"
    /\ Len(clips) >= Len(story_clips)
    /\ pc_pipe' = "exported"
    /\ UNCHANGED <<pipe_highlights, story_clips, clips>>
    /\ UNCHANGED <<pipe_args, pipe_late_vars>>
    /\ UNCHANGED story_vars
    /\ UNCHANGED not_pipe_vars

\* what steps 6 to 6.6 of run_pipeline leave alone
pipe_early_vars == <<pipe_highlights, story_clips, clips>>

\* lines 124-131: one iteration of the captions and thumbnails loop
PipeCaption ==
    /\ pc_pipe = "exported"
    /\ Len(finals) < Len(clips)
    /\ finals' = Append(finals, CaptionedClip(clips[Len(finals) + 1],
                                              story_clips[Len(finals) + 1]))
    /\ UNCHANGED <<enhanced_finals, music_finals, enhance_failed, music_failed,
                   pc_pipe>>
    /\ UNCHANGED <<pipe_args, pipe_early_vars>>
    /\ UNCHANGED story_vars
    /\ UNCHANGED not_pipe_vars

\* line 124: the captions loop has run through clips
PipeCaptionEnd ==
    /\ pc_pipe = "exported"
    /\ Len(finals) >= Len(clips)
    /\ pc_pipe' = "enhance"
    /\ UNCHANGED pipe_late_vars
    /\ UNCHANGED <<pipe_args, pipe_early_vars>>
    /\ UNCHANGED story_vars
    /\ UNCHANGED not_pipe_vars

\* line 136: no AI enhancement asked for
PipeEnhanceSkip ==
    /\ pc_pipe = "enhance"
    /\ ~enable_ai_enhance
    /\ pc_pipe' = "music"
    /\ UNCHANGED pipe_late_vars
    /\ UNCHANGED <<pipe_args, pipe_early_vars>>
    /\ UNCHANGED story_vars
    /\ UNCHANGED not_pipe_vars

\* lines 141-156: one iteration of the enhancement loop
PipeEnhanceClip ==
    /\ pc_pipe = "enhance"
    /\ enable_ai_enhance
    /\ Len(enhanced_finals) < Len(finals)
    /\ enhanced_finals' =
          Append(enhanced_finals, Staged(finals[Len(enhanced_finals) + 1], "enhanced"))
    /\ UNCHANGED <<finals, music_finals, enhance_failed, music_failed, pc_pipe>>
    /\ UNCHANGED <<pipe_args, pipe_early_vars>>
    /\ UNCHANGED story_vars
    /\ UNCHANGED not_pipe_vars

\* line 157: the loop is through, finals = enhanced_finals
PipeEnhanceDone ==
    /\ pc_pipe = "enhance"
    /\ enable_ai_enhance
    /\ Len(enhanced_finals) >= Len(finals)
    /\ finals' = enhanced_finals
    /\ pc_pipe' = "music"
    /\ UNCHANGED <<enhanced_finals, music_finals, enhance_failed, music_failed>>
    /\ UNCHANGED <<pipe_args, pipe_early_vars>>
    /\ UNCHANGED story_vars
    /\ UNCHANGED not_pipe_vars

\* PipeEnhanceRaises that keeps the clips enhanced so far
PipeEnhanceRaisesKeepsPartial ==
    /\ pc_pipe = "enhance"
    /\ enable_ai_enhance
    /\ enhance_failed' = TRUE
    /\ finals' = enhanced_finals
    /\ pc_pipe' = "music"
    /\ UNCHANGED <<enhanced_finals, music_finals, music_failed>>
    /\ UNCHANGED <<pipe_args, pipe_early_vars>>
    /\ UNCHANGED story_vars
    /\ UNCHANGED not_pipe_vars

\* lines 138-159: the import or the processing of some clip raises, the
\* exception is logged
PipeEnhanceRaises ==
    /\ pc_pipe = "enhance"
    /\ enable_ai_enhance
    /\ enhance_failed' = TRUE
    /\ pc_pipe' = "music"
    /\ UNCHANGED <<finals, enhanced_finals, music_finals, music_failed>>
    /\ UNCHANGED <<pipe_args, pipe_early_vars>>
    /\ UNCHANGED story_vars
    /\ UNCHANGED not_pipe_vars

\* line 161: no background music asked for
PipeMusicSkip ==
    /\ pc_pipe = "music"
    /\ ~enable_bg_music
    /\ pc_pipe' = "transitions"
    /\ UNCHANGED pipe_late_vars
    /\ UNCHANGED <<pipe_args, pipe_early_vars>>
    /\ UNCHANGED story_vars
    /\ UNCHANGED not_pipe_vars

\* lines 166-194: one iteration of the music loop; the mood is read from
\* story_clips[i-1]
PipeMusicClip ==
    /\ pc_pipe = "music"
    /\ enable_bg_music
    /\ Len(music_finals) < Len(finals)
    /\ Len(music_finals) + 1 \in DOMAIN story_clips
    /\ music_finals' =
          Append(music_finals, Staged(finals[Len(music_finals) + 1], "music"))
    /\ UNCHANGED <<finals, enhanced_finals, enhance_failed, music_failed, pc_pipe>>
    /\ UNCHANGED <<pipe_args, pipe_early_vars>>
    /\ UNCHANGED story_vars
    /\ UNCHANGED not_pipe_vars

\* line 195: the loop is through, finals = music_finals
PipeMusicDone ==
    /\ pc_pipe = "music"
    /\ enable_bg_music
    /\ Len(music_finals) >= Len(finals)
    /\ finals' = music_finals
    /\ pc_pipe' = "transitions"
    /\ UNCHANGED <<enhanced_finals, music_finals, enhance_failed, music_failed>>
    /\ UNCHANGED <<pipe_args, pipe_early_vars>>
    /\ UNCHANGED story_vars
    /\ UNCHANGED not_pipe_vars

\* lines 163-197: the import, ffprobe's output, the index into story_clips
\* or the processing of some clip raises, the exception is logged
PipeMusicRaises ==
    /\ pc_pipe = "music"
    /\ enable_bg_music
    /\ music_failed' = TRUE
    /\ pc_pipe' = "transitions"
    /\ UNCHANGED <<finals, enhanced_finals, music_finals, enhance_failed>>
    /\ UNCHANGED <<pipe_args, pipe_early_vars>>
    /\ UNCHANGED story_vars
    /\ UNCHANGED not_pipe_vars

NextPipe ==
    \/ PipeDetect \/ PipeCallCompose
    \/ StoryAdmit \/ StoryBreak \/ StoryExhaust \/ StoryReturn
    \/ PipeComposed \/ PipeExport \/ PipeExportBlurred \/ PipeExportBlurFails
    \/ PipeExportEnd \/ PipeCaption \/ PipeCaptionEnd
    \/ PipeEnhanceSkip \/ PipeEnhanceClip \/ PipeEnhanceDone \/ PipeEnhanceRaises
    \/ PipeMusicSkip \/ PipeMusicClip \/ PipeMusicDone \/ PipeMusicRaises

SpecPipe == InitPipe /\ [][NextPipe]_vars

(***************************************************************************)
(* The frame loop of blur_plates_video.  The steps of the loop follow one   *)
(* another without waiting for anything, so a step that can be taken is     *)
(* taken.  Runs in which the detector or an OpenCV call raises end the      *)
(* function with the exception and are left out.                            *)
(***************************************************************************)
InitVideo ==
    /\ StoryOff
    /\ ScoreIdle
    /\ ExtOff
    /\ PlateOff
    /\ PipeOff
    /\ video \in SeqsUpTo(FrameDetections, MaxVideoFrames)
    /\ cap_opened \in BOOLEAN
    /\ frames_read = 0
    /\ frame_dets = <<>>
    /\ det_idx = 1
    /\ frame_blurs = 0
    /\ written = <<>>
    /\ logs = <<>>
    /\ pc_video = "open"

\* lines 55-56: the capture did not open, RuntimeError
VideoOpenFails ==
    /\ pc_video = "open"
    /\ ~cap_opened
    /\ pc_video' = "raised"
    /\ UNCHANGED <<video, cap_opened, frames_read, frame_dets, det_idx, frame_blurs,
                   written, logs>>
    /\ UNCHANGED not_video_vars

\* lines 53-62: the capture is open, the writer and the log list are made
VideoOpen ==
    /\ pc_video = "open"
    /\ cap_opened
    /\ logs' = <<LogStart>>
    /\ pc_video' = "read"
    /\ UNCHANGED <<video, cap_opened, frames_read, frame_dets, det_idx, frame_blurs,
                   written>>
    /\ UNCHANGED not_video_vars

\* lines 64-68: a frame is read and the detector is run on it
VideoRead ==
    /\ pc_video = "read"
    /\ frames_read < Len(video)
    /\ frames_read' = frames_read + 1
    /\ frame_dets' = video[frames_read + 1]
    /\ det_idx' = 1
    /\ frame_blurs' = 0
    /\ pc_video' = "detect"
    /\ UNCHANGED <<video, cap_opened, written, logs>>
    /\ UNCHANGED not_video_vars

\* what a detection that blurs nothing leaves alone
video_detection_frame == <<video, cap_opened, frames_read, frame_dets, frame_blurs,
                           written, logs, pc_video>>

\* line 71: a detection of another class, continue
VideoDetectionSkipped ==
    /\ pc_video = "detect"
    /\ det_idx <= Len(frame_dets)
    /\ frame_dets[det_idx] = "other"
    /\ det_idx' = det_idx + 1
    /\ UNCHANGED video_detection_frame
    /\ UNCHANGED not_video_vars

\* lines 72-79: a vehicle for which _find_plate_boxes returns no box
VideoDetectionNoPlate ==
    /\ pc_video = "detect"
    /\ det_idx <= Len(frame_dets)
    /\ frame_dets[det_idx] = "vehicle"
    /\ det_idx' = det_idx + 1
    /\ UNCHANGED video_detection_frame
    /\ UNCHANGED not_video_vars

\* lines 72-84: a vehicle with a plate box, which is blurred in the frame
VideoDetectionBlurred ==
    /\ pc_video = "detect"
    /\ det_idx <= Len(frame_dets)
    /\ frame_dets[det_idx] = "plate"
    /\ frame_blurs' = frame_blurs + 1
    /\ det_idx' = det_idx + 1
    /\ UNCHANGED <<video, cap_opened, frames_read, frame_dets, written, logs,
                   pc_video>>
    /\ UNCHANGED not_video_vars

\* VideoWrite that writes only frames in which something was blurred
VideoWriteOnlyBlurred ==
    /\ pc_video = "detect"
    /\ det_idx > Len(frame_dets)
    /\ written' = IF frame_blurs > 0
                  THEN Append(written, [index |-> frames_read, blurs |-> frame_blurs])
                  ELSE written
    /\ pc_video' = "read"
    /\ UNCHANGED <<video, cap_opened, frames_read, frame_dets, det_idx, frame_blurs,
                   logs>>
    /\ UNCHANGED not_video_vars

\* line 85: out.write(frame), after the loops over the detections
VideoWrite ==
    /\ pc_video = "detect"
    /\ det_idx > Len(frame_dets)
    /\ written' = Append(written, [index |-> frames_read, blurs |-> frame_blurs])
    /\ pc_video' = "read"
    /\ UNCHANGED <<video, cap_opened, frames_read, frame_dets, det_idx, frame_blurs,
                   logs>>
    /\ UNCHANGED not_video_vars

\* lines 64-65, 86-88: no frame left, break, release, return logs
VideoReturn ==
    /\ pc_video = "read"
    /\ frames_read >= Len(video)
    /\ logs' = Append(logs, LogDone)
    /\ pc_video' = "returned"
    /\ UNCHANGED <<video, cap_opened, frames_read, frame_dets, det_idx, frame_blurs,
                   written>>
    /\ UNCHANGED not_video_vars

NextVideo ==
    \/ VideoOpenFails \/ VideoOpen \/ VideoRead
    \/ VideoDetectionSkipped \/ VideoDetectionNoPlate \/ VideoDetectionBlurred
    \/ VideoWrite \/ VideoReturn

SpecVideo == InitVideo /\ [][NextVideo]_vars /\ WF_vars(NextVideo)

(***************************************************************************)
(* Claims about compose_story, checked under SpecStory.                    *)
(***************************************************************************)
RECURSIVE SumSpan(_)
\* sum of (end - start) over a sequence of segments
SumSpan(s) == IF s = <<>> THEN 0 ELSE (Head(s).end - Head(s).start) + SumSpan(Tail(s))

RECURSIVE SumClamped(_)
\* sum of max(0.3, end - start) over a sequence of segments
SumClamped(s) ==
    IF s = <<>> THEN 0
    ELSE Max(MinClip, Head(s).end - Head(s).start) + SumClamped(Tail(s))

IsPrefix(s, t) == Len(s) <= Len(t) /\ s = SubSeq(t, 1, Len(s))

\* C1: the returned segments' total (end - start) is within the budget,
\* unless the result is the first input candidate alone and that candidate
\* is by itself longer than the budget.
C1_BudgetRespected ==
    pc_story = "done" =>
        \/ SumSpan(story) <= max_total_sec
        \/ /\ highlights # <<>>
           /\ story = <<highlights[1]>>
           /\ highlights[1].end - highlights[1].start > max_total_sec

\* a run that returned two or more segments filling the budget exactly
C1_Witness ==
    /\ pc_story = "done"
    /\ Len(story) >= 2
    /\ SumSpan(story) = max_total_sec

\* C2: the result is a prefix of the input; a candidate is admitted exactly
\* when the running total plus max(0.3, end - start) is within the budget
\* (equality admits), and nothing is admitted after the first rejection.
C2_PrefixOfInput ==
    /\ IsPrefix(out, highlights)
    /\ Len(out) = idx - 1
    /\ total = SumClamped(out)
    /\ total <= max_total_sec
    /\ pc_story = "done" =>
          /\ IsPrefix(story, highlights)
          /\ \A k \in 1..Len(highlights) :
                (SumClamped(SubSeq(highlights, 1, k)) <= max_total_sec)
                    => Len(story) >= k
          /\ \A k \in 2..Len(highlights) :
                (SumClamped(SubSeq(highlights, 1, k)) > max_total_sec)
                    => Len(story) < k

\* a run that admitted a candidate bringing the total exactly to the budget
\* and then rejected a later candidate that would have fitted on its own
C2_Witness ==
    /\ pc_story = "done"
    /\ Len(story) = 2
    /\ SumClamped(story) = max_total_sec
    /\ Len(highlights) = 3
    /\ Max(MinClip, highlights[3].end - highlights[3].start) <= max_total_sec

\* C3: a non-empty input gives a non-empty result, and when the first
\* candidate alone exceeds the budget the result is that candidate alone.
C3_NeverEmpty ==
    pc_story = "done" =>
        /\ (highlights # <<>> => story # <<>>)
        /\ (/\ highlights # <<>>
            /\ Max(MinClip, highlights[1].end - highlights[1].start) > max_total_sec)
              => story = <<highlights[1]>>

\* the single candidate {0,100} with budget 10 returned as [{0,100}]
C3_Witness ==
    /\ pc_story = "done"
    /\ highlights = <<Cand(0, 100000)>>
    /\ max_total_sec = 10000
    /\ story = <<Cand(0, 100000)>>

\* C4: candidates [{0,10},{10,50},{50,60}] with budget 45 give [{0,10}].
C4_Example ==
    (/\ pc_story = "done"
     /\ highlights = <<Cand(0, 10000), Cand(10000, 50000), Cand(50000, 60000)>>
     /\ max_total_sec = 45000)
        => story = <<Cand(0, 10000)>>

\* that run has returned
C4_Witness ==
    /\ pc_story = "done"
    /\ highlights = <<Cand(0, 10000), Cand(10000, 50000), Cand(50000, 60000)>>
    /\ max_total_sec = 45000
    /\ total = 10000
    /\ idx = 2

(***************************************************************************)
(* Claims about compute_virality_score, checked under SpecScore.           *)
(***************************************************************************)
\* a call has returned and no other has started since: the locals still
\* hold that call's values
ScoreDone == pc_score = "idle" /\ returned # <<>>

RECURSIVE RangeSum(_, _, _)
\* s[lo] + ... + s[hi]
RangeSum(s, lo, hi) == IF lo > hi THEN 0 ELSE s[lo] + RangeSum(s, lo + 1, hi)

\* sum of the window of w samples at 0-based offset o
WindowSum(s, o, w) == RangeSum(s, o + 1, o + w)

\* C5: when the fused signal is no longer than the window (L <= win), the
\* scorer returns an empty candidate list.
C5_EmptyWhenNoWindow ==
    (ScoreDone /\ Len(score) <= win) => candidates = <<>>

\* C6: every emitted candidate has score >= 0.
C6_ScoreNonNegative ==
    \A k \in 1..Len(candidates) : candidates[k].score.num >= 0

\* C7: when L > win, the chosen window has the greatest sum among all
\* offsets o with o + win <= L, the last full window at L - win included.
C7_GlobalMaximum ==
    (ScoreDone /\ Len(score) > win) =>
        \A o \in 0..(Len(score) - win) :
            WindowSum(score, best_i, win) >= WindowSum(score, o, win)

\* the fused signal is 0.0 except for one run of 1.0 at positions a..b
\* (1-based) that has a 0.0 sample on each side
IsSpike(s, a, b) ==
    /\ 2 <= a /\ a <= b /\ b <= Len(s) - 1
    /\ \A k \in 1..Len(s) :
          s[k] = IF a <= k /\ k <= b THEN ScoreDen(Len(s)) ELSE 0

\* C8: for a fused signal that is a single spike of 1.0 with 0.0 on both
\* sides and win <= spike width, the chosen window lies inside the spike.
C8_SpikeContained ==
    ScoreDone =>
        \A a, b \in 1..Len(score) :
            (IsSpike(score, a, b) /\ win <= b - a + 1 /\ Len(score) > win) =>
                \A k \in (best_i + 1)..(best_i + win) :
                    score[k] = ScoreDen(Len(score))

\* a spike two samples wide scanned with a one-sample window
C8_Witness ==
    /\ ScoreDone
    /\ IsSpike(score, 2, 3)
    /\ win = 1
    /\ best_i = 1

C10_ExactlyOne ==
    /\ \A k \in 1..Len(returned) : Len(returned[k].result) = 1
    /\ ScoreDone => Len(candidates) = 1

\* a call whose signal was not longer than the window has returned
C10_Witness ==
    /\ ScoreDone
    /\ Len(score) <= win
    /\ rmse = <<FallbackSample>>
    /\ motion = <<FallbackSample>>
    /\ Len(candidates) = 1

\* C18: compose_story never changes its input list (same length, order and
\* records), and each returned segment is the input candidate at the same
\* index.
C18_InputNotMutated ==
    /\ [][highlights' = highlights]_vars
    /\ [](\A k \in 1..Len(out) : out[k] = highlights[k])
    /\ [](pc_story = "done" =>
            \A k \in 1..Len(story) : story[k] = highlights[k])

\* a run over three candidates that returned two of them
C18_Witness ==
    /\ pc_story = "done"
    /\ Len(highlights) = 3
    /\ Len(story) = 2
    /\ story[2] = highlights[2]

\* C19: among the offsets 0 .. L-win-1 the scorer selects the smallest
\* offset whose window sum is the maximum over that range.
C19_FirstMaximum ==
    (ScoreDone /\ Len(score) > win) =>
        /\ best_i \in 0..(Len(score) - win - 1)
        /\ best_v = WindowSum(score, best_i, win)
        /\ \A o \in 0..(Len(score) - win - 1) :
              /\ WindowSum(score, o, win) <= WindowSum(score, best_i, win)
              /\ o < best_i => WindowSum(score, o, win) < WindowSum(score, best_i, win)
        /\ candidates[1].start = best_i * hop_sec

\* a scan in which two offsets tie for the maximum and the first, which is
\* not offset 0, was chosen
C19_Witness ==
    /\ ScoreDone
    /\ Len(score) > win
    /\ best_i > 0
    /\ \E o \in (best_i + 1)..(Len(score) - win - 1) :
          WindowSum(score, o, win) = WindowSum(score, best_i, win)

\* round(t / h) for t >= 0, h > 0, ties to the even integer
RoundDiv(t, h) ==
    LET q == t \div h
        r == t % h
    IN  IF 2 * r < h THEN q
        ELSE IF 2 * r > h THEN q + 1
        ELSE IF q % 2 = 0 THEN q ELSE q + 1

\* C20: the window length is win = max(1, round(target_duration / hop)).
C20_WinRounded ==
    (pc_score = "scan" \/ ScoreDone) =>
        win = Max(1, RoundDiv(target_len, Max(hop_sec, HopFloor)))

(***************************************************************************)
(* Claims about the extractors, checked under SpecExtract.                 *)
(***************************************************************************)
\* the fraction num / (den + eps * 1e-9) has a non-zero denominator
Defined(f) == f.den > 0 \/ (f.den = 0 /\ f.eps > 0)

\* 0 <= num / (den + eps * 1e-9) <= 1, for integers num and den
InUnit(f) == 0 <= f.num /\ f.num <= f.den

IsZero(f) == f.num = 0

Constant(x) == \A j, k \in 1..Len(x) : x[j] = x[k]

\* C11: after min-max normalisation every value of the audio signal and of
\* the motion signal is defined and lies in [0,1], and a constant raw
\* signal normalises to all 0.
C11_NormalisedInUnit ==
    /\ \A k \in 1..Len(rmse_norm) : Defined(rmse_norm[k]) /\ InUnit(rmse_norm[k])
    /\ \A k \in 1..Len(motion_norm) : Defined(motion_norm[k]) /\ InUnit(motion_norm[k])
    /\ (pc_ext # "audio" /\ ~audio_fails /\ audio_raw # <<>>) =>
          /\ Len(rmse_norm) = Len(audio_raw)
          /\ Constant(audio_raw) => \A k \in 1..Len(rmse_norm) : IsZero(rmse_norm[k])
    /\ (pc_ext = "done" /\ ~motion_raised /\ scores # <<>>) =>
          /\ Len(motion_norm) = Len(scores)
          /\ Constant(scores) => \A k \in 1..Len(motion_norm) : IsZero(motion_norm[k])

\* a constant audio signal of two or more samples and a constant motion
\* signal of two or more samples have both been normalised
C11_Witness ==
    /\ pc_ext = "done"
    /\ ~audio_fails /\ Len(audio_raw) >= 2 /\ Constant(audio_raw)
    /\ audio_raw[1] > 0
    /\ ~motion_raised /\ Len(scores) >= 2 /\ Constant(scores)
    /\ scores[1] > 0
    /\ \A k \in 1..Len(motion_norm) : IsZero(motion_norm[k])

\* after a failed extraction the call has returned or its next step is
\* enabled
Progresses ==
    (pc_ext # "audio" /\ pc_ext # "motion" /\ returned = <<>>
        /\ (audio_fails \/ audio_raw = <<>> \/ motion_raised \/ scores = <<>>)) =>
        ENABLED (ExtScoreStart \/ ScoreScanBetter \/ ScoreScanKeep \/ ScoreReturn)

\* C12: a failure of the audio or of the video analysis is not propagated:
\* the audio fallback is [0.5] with hop 1.0 s, the motion fallback (also for
\* no samples) is [0.5], and the call goes on to return.
C12_FailureAbsorbed ==
    /\ (pc_ext # "audio" /\ (audio_fails \/ audio_raw = <<>>)) =>
          /\ rmse_norm = <<HalfFrac>>
          /\ rmse = <<FallbackSample>>
          /\ hop_sec = FallbackHop
    /\ (pc_ext # "audio" /\ pc_ext # "motion" /\ (motion_raised \/ scores = <<>>)) =>
          /\ pc_ext = "done"
          /\ motion_norm = <<HalfFrac>>
          /\ motion = <<FallbackSample>>
    /\ Progresses
    /\ ScoreDone => Len(candidates) = 1

\* both extractors failed, the video after two samples, and the call returned
C12_Witness ==
    /\ ScoreDone
    /\ audio_fails
    /\ motion_raised
    /\ Len(scores) = 2
    /\ Len(candidates) = 1


(***************************************************************************)
(* Claims about _find_plate_boxes and blur_plates_video                    *)
(***************************************************************************)
\* _find_plate_boxes has returned
FindDone == pc_plate \in {"blur", "end"} /\ det_cls \in VEHICLE_CLASSES

Passes(c) == ~TooSmall(c) /\ ShapeOk(c) /\ ~(10 * c.nz < c.w * c.h)

Passing == {k \in 1..Len(contours) : Passes(contours[k])}

\* C13: _find_plate_boxes never returns more than 2 boxes, however many
\* contours pass the size, aspect, fill and edge-density filters.
C13_AtMostTwo == FindDone => Len(boxes) <= 2

\* three contours passed every filter and two boxes were returned
C13_Witness ==
    /\ FindDone
    /\ Cardinality(Passing) = 3
    /\ Len(plate_cands) = 3
    /\ Len(boxes) = 2

\* the inset vehicle box has non-increasing coordinates
NonIncreasing(v) == v.x2 <= v.x1 \/ v.y2 <= v.y1

\* C14: an empty vehicle crop makes _find_plate_boxes return an empty list
\* before any image processing; a vehicle box whose inset coordinates are
\* non-increasing gives such a crop and nothing of the frame is blurred.
C14_EmptyCrop ==
    /\ (pc_plate # "det" /\ det_cls \in VEHICLE_CLASSES /\ NonIncreasing(veh))
          => roi_w * roi_h = 0
    /\ (pc_plate # "det" /\ det_cls \in VEHICLE_CLASSES /\ roi_w * roi_h = 0)
          => /\ ~plate_processed
             /\ pc_plate # "scan"
             /\ boxes = <<>>
             /\ blurred = <<>>

\* a detection with x1d > x2d was handled to the end
C14_Witness ==
    /\ pc_plate = "end"
    /\ det_cls \in VEHICLE_CLASSES
    /\ veh.x2 < veh.x1
    /\ roi_w = 0
    /\ roi_h > 0
    /\ boxes = <<>>

\* C16: a crop whose gradient image has no non-zero pixel yields zero
\* candidates.
C16_UniformNoCandidates ==
    (FindDone /\ plate_processed /\ \A k \in 1..Len(contours) : contours[k].nz = 0)
        => (plate_cands = <<>> /\ boxes = <<>>)

\* plate-shaped contours without gradient pixels were all rejected
C16_Witness ==
    /\ FindDone
    /\ plate_processed
    /\ Len(contours) = 2
    /\ \A k \in 1..Len(contours) :
          /\ contours[k].nz = 0
          /\ ~TooSmall(contours[k])
          /\ ShapeOk(contours[k])
    /\ boxes = <<>>

\* the only contour that passes
TheOne == contours[CHOOSE k \in Passing : TRUE]

\* exactly one contour passes all filters, and it has aspect 3.0
OnePlate ==
    /\ FindDone
    /\ plate_processed
    /\ Cardinality(Passing) = 1
    /\ TheOne.w = 3 * TheOne.h

\* the contour is a rectangle of the crop: mapped back to the crop it is at
\* least one pixel wide and one pixel high
CropRectangle(c) == c.w * roi_w >= ProcW /\ c.h * roi_w >= ProcW

C17_DefaultSubstituted ==
    /\ (pc_pipe \notin {"off", "detect"} /\ scored = <<>>)
          => pipe_highlights =
                <<[start |-> 0, end |-> 30000, score |-> [num |-> 1, den |-> 2],
                   mood |-> mood_default]>>
    /\ pc_pipe \notin {"off", "detect"} => pipe_highlights # <<>>
    /\ pc_pipe \notin {"off", "detect", "call"} => highlights # <<>>
    /\ pc_pipe \notin {"off", "detect", "call", "compose"} => story_clips # <<>>
    /\ pc_pipe \notin {"off", "detect", "call", "compose", "export"} =>
          Len(clips) >= 1

\* the scorer's result was empty and the default was exported as one clip
\* of 30 s
C17_Witness ==
    /\ pc_pipe = "exported"
    /\ scored = <<>>
    /\ mood_default = "calm"
    /\ Len(clips) = 1
    /\ clips[1].start = 0
    /\ clips[1].duration = 30000
    /\ clips[1].mood = "calm"


(***************************************************************************)
(* Further claims about compute_virality_score                             *)
(***************************************************************************)
\* C21: the emitted candidate has start = offset*hop_seconds clamped to
\* >= 0 and end = start + target duration clamped to at least start + 0.3,
\* so end > start and end - start >= 0.3, also for targets <= 0.3.
C21_MinimumClip ==
    ScoreDone =>
        \A k \in 1..Len(candidates) :
            /\ candidates[k].start = Max(0, best_i * hop_sec)
            /\ candidates[k].end =
                  Max(candidates[k].start + 300, candidates[k].start + target_len)
            /\ candidates[k].end > candidates[k].start
            /\ candidates[k].end - candidates[k].start >= 300

\* a target of 0.2 s was scored at a non-zero offset and the clip is 0.3 s
C21_Witness ==
    /\ ScoreDone
    /\ target_len = 200
    /\ best_i > 0
    /\ Len(candidates) = 1
    /\ candidates[1].end - candidates[1].start = 300

\* C22: when L > win the score is best_sum / win, the average of the fused
\* signal 0.6*audio + 0.4*motion over the chosen window, so it lies in
\* [0,1]; the mood is always "energetic".
C22_AverageScore ==
    ScoreDone =>
        \A k \in 1..Len(candidates) :
            /\ candidates[k].mood = "energetic"
            /\ Len(score) > win =>
                  /\ \A j \in 1..Len(score) :
                        score[j] = 6 * rmse_rs[j] + 4 * motion_rs[j]
                  /\ candidates[k].score.num = WindowSum(score, best_i, win)
                  /\ candidates[k].score.den = 20 * Denom(Len(score)) * win
                  /\ candidates[k].score.num >= 0
                  /\ candidates[k].score.num <= candidates[k].score.den

\* a window of two samples where both signals are 1.0 scored exactly 1.0
C22_Witness ==
    /\ ScoreDone
    /\ win = 2
    /\ Len(score) > win
    /\ best_i > 0
    /\ candidates[1].score.num = candidates[1].score.den

\* the value of x, linearly interpolated at position k*(n-1)/(L-1) of its
\* own index range (k 0-based), times Denom(L)
LinearAt(x, L, k) ==
    LET p == k * (Len(x) - 1)
        f == p \div Denom(L)
        r == p % Denom(L)
    IN  IF r = 0 THEN Denom(L) * x[f + 1]
        ELSE (Denom(L) - r) * x[f + 1] + r * x[f + 2]

\* y is x brought to length L as the claim describes
ResampledAs(x, y, L) ==
    /\ Len(y) = L
    /\ Len(x) = L => \A k \in 1..L : y[k] = x[k] * Denom(L)
    /\ Len(x) = 1 => \A k \in 1..L : y[k] = x[1] * Denom(L)
    /\ Len(x) > 1 =>
          /\ y[1] = x[1] * Denom(L)
          /\ y[L] = x[Len(x)] * Denom(L)
          /\ \A k \in 1..L :
                /\ y[k] = LinearAt(x, L, k - 1)
                /\ y[k] >= SeqMin(x) * Denom(L)
                /\ y[k] <= SeqMax(x) * Denom(L)

\* C23: before fusion both signals have the common length L = max(len(audio),
\* len(motion)); a signal of length L is unchanged, a shorter one of length
\* > 1 is linearly interpolated over its own index range (ends preserved,
\* values within the original's range), one of length 1 is broadcast.
\* Stated of the resampled signals as the scan starts; the scan does not
\* change them.
C23_CommonLength ==
    (pc_score = "scan" /\ i = 0) =>
        /\ Len(score) = Max(Len(rmse), Len(motion))
        /\ ResampledAs(rmse, rmse_rs, Len(score))
        /\ ResampledAs(motion, motion_rs, Len(score))

\* three audio samples were stretched over four positions
C23_Witness ==
    /\ pc_score = "scan"
    /\ rmse = <<0, 2, 0>>
    /\ Len(motion) = 4
    /\ rmse_rs = <<0, 4, 4, 0>>
    /\ motion_rs = [k \in 1..4 |-> 3 * motion[k]]


(***************************************************************************)
(* Further claims about _motion_score                                      *)
(***************************************************************************)
\* number of multiples of n among the frame indices 0..f-1, less one
SampleCount(f, n) == IF f >= 1 THEN (f + n - 1) \div n - 1 ELSE 0

\* C24: for F decodable frames and step N, _motion_score samples exactly the
\* frames whose index is a multiple of N, each sample is the mean absolute
\* difference to the previously sampled frame, the first sampled frame gives
\* no sample, so there are ceil(F/N) - 1 raw samples for F >= 1; with no
\* sample the result is [0.5].
C24_EveryNthFrame ==
    (pc_ext = "done" /\ ~motion_raised) =>
        /\ Len(scores) = SampleCount(Len(frames), step)
        /\ \A j \in 1..Len(scores) :
              LET cur == frames[j * step + 1]
                  old == frames[(j - 1) * step + 1]
              IN  scores[j] = IF cur >= old THEN cur - old ELSE old - cur
        /\ Len(scores) = 0 =>
              motion_norm = <<[num |-> 1, den |-> 2, eps |-> 0]>>

\* three frames sampled with step 2: frames 0 and 2 differ, frame 1 is
\* skipped and equals frame 2
C24_Witness ==
    /\ pc_ext = "done"
    /\ ~motion_raised
    /\ step = 2
    /\ frames = <<0, 1, 1>>
    /\ scores = <<1>>


(***************************************************************************)
(* Further claims about _find_plate_boxes                                  *)
(***************************************************************************)
\* the predicates of the filter cascade, on a contour's bounding rectangle
InPlateShape(c) ==
    /\ c.w >= 30
    /\ c.h >= 12
    /\ 10 * c.w >= 18 * c.h
    /\ 10 * c.w <= 65 * c.h
    /\ 100 * c.ca >= 45 * c.w * c.h
    /\ c.ca <= c.w * c.h
    /\ 100 * c.nz >= 10 * c.w * c.h

\* the candidate of contour c: padded by 6% of the width and 25% of the
\* height, clipped to the processed image
PaddedRect(c) ==
    [ x1 |-> Max(0, c.x - (6 * c.w) \div 100),
      y1 |-> Max(0, c.y - (25 * c.h) \div 100),
      x2 |-> Min(proc_w, c.x + c.w + (6 * c.w) \div 100),
      y2 |-> Min(proc_h, c.y + c.h + (25 * c.h) \div 100),
      area |-> c.w * c.h, w |-> c.w, h |-> c.h, nz |-> c.nz ]

\* C25: every returned box derives from a contour with width >= 30, height
\* >= 12, aspect in [1.8, 6.5], fill in [0.45, 1.0] and edge density >= 0.10;
\* a contour failing one of these never yields a box.
C25_FiltersRespected ==
    (FindDone /\ plate_processed) =>
        /\ \A k \in 1..Len(plate_cands) :
              \E j \in 1..Len(contours) :
                  InPlateShape(contours[j]) /\ plate_cands[k] = PaddedRect(contours[j])
        /\ Len(plate_cands) <=
              Cardinality({j \in 1..Len(contours) : InPlateShape(contours[j])})
        /\ \A k \in 1..Len(boxes) :
              \E j \in 1..Len(plate_cands) :
                  boxes[k] = ScaledBox(plate_cands[j], roi_w, roi_h)

\* of three contours one failed on fill alone, the other two were returned
C25_Witness ==
    /\ FindDone
    /\ plate_processed
    /\ Len(contours) = 3
    /\ \E j \in 1..3 :
          /\ contours[j].w = 60
          /\ contours[j].ca = 540
          /\ contours[j].nz = 600
    /\ Len(plate_cands) = 2
    /\ Len(boxes) = 2

\* twice area * (edge_density + 0.5)
Rank(t) == 2 * t.nz + t.area

\* ix lists the indices of the highest-ranked candidates, best first
TopRanked(ix) ==
    /\ \A a, b \in 1..Len(ix) : a < b =>
          (ix[a] # ix[b] /\ Rank(plate_cands[ix[a]]) >= Rank(plate_cands[ix[b]]))
    /\ \A a \in 1..Len(ix) : \A j \in 1..Len(plate_cands) :
          (\A b \in 1..Len(ix) : ix[b] # j) =>
              Rank(plate_cands[ix[a]]) >= Rank(plate_cands[j])

\* C26: survivors are ranked by area * (edge_density + 0.5) descending and
\* only the top 2 are kept: the returned boxes come from the two
\* highest-ranked survivors, in descending rank order, and never from one
\* ranked third or lower.
C26_TopTwoByRank ==
    (FindDone /\ plate_processed) =>
        \E ix \in [1..Min(2, Len(plate_cands)) -> 1..Len(plate_cands)] :
            /\ TopRanked(ix)
            /\ boxes = KeepNonEmpty([k \in 1..Len(ix) |->
                                        ScaledBox(plate_cands[ix[k]], roi_w, roi_h)])

\* three survivors, found in ascending rank order with the smaller but
\* denser one ranked above the larger one: the last two found are returned,
\* the best first
C26_Witness ==
    /\ FindDone
    /\ Len(plate_cands) = 3
    /\ Rank(plate_cands[1]) < Rank(plate_cands[2])
    /\ Rank(plate_cands[2]) < Rank(plate_cands[3])
    /\ plate_cands[2].area > plate_cands[3].area
    /\ boxes = <<ScaledBox(plate_cands[3], roi_w, roi_h),
                 ScaledBox(plate_cands[2], roi_w, roi_h)>>
    /\ boxes[1] # boxes[2]

\* C27: each survivor is padded by 6% of its width left and right and 25% of
\* its height top and bottom, clipped to the processed image, then scaled
\* back; every returned box satisfies 0 <= X1 < X2 <= w0 and
\* 0 <= Y1 < Y2 <= h0.
C27_BoxesInsideCrop ==
    (FindDone /\ plate_processed) =>
        /\ \A k \in 1..Len(plate_cands) :
              /\ \E j \in 1..Len(contours) : plate_cands[k] = PaddedRect(contours[j])
              /\ 0 <= plate_cands[k].x1 /\ plate_cands[k].x2 <= proc_w
              /\ 0 <= plate_cands[k].y1 /\ plate_cands[k].y2 <= proc_h
        /\ \A k \in 1..Len(boxes) :
              /\ 0 <= boxes[k].X1 /\ boxes[k].X1 < boxes[k].X2 /\ boxes[k].X2 <= roi_w
              /\ 0 <= boxes[k].Y1 /\ boxes[k].Y1 < boxes[k].Y2 /\ boxes[k].Y2 <= roi_h

\* a survivor at the lower left border was clipped and its box reaches the
\* edges of the crop
C27_Witness ==
    /\ FindDone
    /\ plate_processed
    /\ \E k \in 1..Len(boxes) : boxes[k].X1 = 0 /\ boxes[k].Y2 = roi_h
    /\ \E k \in 1..Len(plate_cands) : plate_cands[k].x1 = 0 /\ plate_cands[k].y2 = proc_h


(***************************************************************************)
(* Further claims about blur_plates_video                                  *)
(***************************************************************************)
\* C29: blur is applied only inside boxes returned by _find_plate_boxes for
\* detections of class 2, 3, 5 or 7; every blurred rectangle lies inside the
\* 3%-inset vehicle box and inside the frame; nothing else of the frame is
\* overwritten; the kernel size used is odd (k if k is odd, else k+1).
C29_BlurInsidePlateBoxes ==
    /\ det_cls \notin {2, 3, 5, 7} => blurred = <<>>
    /\ pc_plate # "end" => blurred = <<>>
    /\ Len(blurred) <= Len(boxes)
    /\ \A j \in 1..Len(blurred) :
          LET r == blurred[j]
          IN  /\ \E b \in 1..Len(boxes) :
                    /\ r.X1 = veh.x1 + boxes[b].X1 /\ r.X2 = veh.x1 + boxes[b].X2
                    /\ r.Y1 = veh.y1 + boxes[b].Y1 /\ r.Y2 = veh.y1 + boxes[b].Y2
              /\ veh.x1 <= r.X1 /\ r.X1 < r.X2 /\ r.X2 <= veh.x2
              /\ veh.y1 <= r.Y1 /\ r.Y1 < r.Y2 /\ r.Y2 <= veh.y2
              /\ 0 <= r.X1 /\ r.X2 <= frame_w
              /\ 0 <= r.Y1 /\ r.Y2 <= frame_h
              /\ r.kk % 2 = 1
              /\ r.kk = IF blur_k % 2 = 1 THEN blur_k ELSE blur_k + 1

\* two plates of a vehicle away from the frame's origin were blurred with
\* kernel 51 although 50 was asked for
C29_Witness ==
    /\ pc_plate = "end"
    /\ blur_k = 50
    /\ veh.x1 > 0
    /\ Len(blurred) = 2
    /\ blurred[1].kk = 51
    /\ blurred[1].X1 > boxes[1].X1


(***************************************************************************)
(* Further claims about run_pipeline                                       *)
(***************************************************************************)
\* the captions loop is through
Captioned == pc_pipe \in {"enhance", "music", "transitions"}

\* every final clip went through exactly these steps
AllStaged(st) == \A j \in 1..Len(finals) : finals[j].stages = st

\* C30: the AI-enhancement step and the background-music step are each
\* all-or-nothing: when processing a clip raises, finals keeps the value it
\* had before the step; up to the smart-transitions step len(finals) =
\* len(clips) = len(story_clips), finals[i-1] derives from story_clips[i-1]
\* and the index story_clips[i-1] is in range; a failed plate blur keeps the
\* un-blurred clip in clips.
C30_AllOrNothing ==
    /\ pc_pipe \notin {"off", "detect", "call", "compose", "export"} =>
          /\ Len(clips) = Len(story_clips)
          /\ \A j \in 1..Len(clips) :
                /\ clips[j].n = j
                /\ clips[j].start = story_clips[j].start
                /\ ~blur_plates => ~clips[j].blur
    /\ pc_pipe = "exported" => Len(finals) <= Len(story_clips)
    /\ Captioned =>
          /\ Len(finals) = Len(clips)
          /\ \A j \in 1..Len(finals) :
                /\ finals[j].n = j
                /\ finals[j].blur = clips[j].blur
                /\ finals[j].start_time = story_clips[j].start
    /\ pc_pipe = "enhance" => AllStaged(<<"captioned">>)
    /\ pc_pipe = "music" =>
          /\ Len(music_finals) <= Len(story_clips)
          /\ IF enable_ai_enhance /\ ~enhance_failed
             THEN AllStaged(<<"captioned", "enhanced">>)
             ELSE AllStaged(<<"captioned">>)
    /\ pc_pipe = "transitions" =>
          AllStaged(<<"captioned">>
                    \o (IF enable_ai_enhance /\ ~enhance_failed
                        THEN <<"enhanced">> ELSE <<>>)
                    \o (IF enable_bg_music /\ ~music_failed
                        THEN <<"music">> ELSE <<>>))

\* three clips, the blur failed for one of them, the enhancement failed
\* after two clips and the music after one
C30_Witness ==
    /\ pc_pipe = "transitions"
    /\ Len(story_clips) = 3
    /\ blur_plates
    /\ clips[1].blur
    /\ ~clips[2].blur
    /\ enhance_failed
    /\ Len(enhanced_finals) = 2
    /\ music_failed
    /\ Len(music_finals) = 1
    /\ Len(finals) = 3


(***************************************************************************)
(* Claims about the frame loop of blur_plates_video                        *)
(***************************************************************************)
\* the number of "plate" detections among ds
RECURSIVE PlateCount(_)
PlateCount(ds) ==
    IF ds = <<>> THEN 0
    ELSE (IF Head(ds) = "plate" THEN 1 ELSE 0) + PlateCount(Tail(ds))

\* one frame written per frame read so far, in input order
WrittenInOrder ==
    /\ Len(written) = IF pc_video = "detect" THEN frames_read - 1 ELSE frames_read
    /\ \A j \in 1..Len(written) :
          /\ written[j].index = j
          /\ written[j].blurs = PlateCount(video[j])
    /\ pc_video = "returned" =>
          /\ frames_read = Len(video)
          /\ Len(written) = Len(video)
          /\ logs = <<"[INFO] Blurring", "[INFO] Done.">>

\* C28: blur_plates_video writes exactly one frame to the output for every
\* frame read, in input order, whether or not a vehicle or plate was
\* detected in it; the loop ends when the input is exhausted and the
\* function then returns its log list.
C28_OneFrameOutPerFrameIn ==
    /\ []WrittenInOrder
    /\ (pc_video = "read") ~> (pc_video = "returned")

\* three frames, one without detection and one with a blurred plate, were
\* all written and the function returned
C28_Witness ==
    /\ pc_video = "returned"
    /\ Len(video) = 3
    /\ video[1] = <<>>
    /\ video[2] = <<"vehicle", "plate">>
    /\ video[3] = <<"other">>
    /\ Len(written) = 3

====
